---- MODULE Spec2Model ----
(***************************************************************************)
(* Model of the two icon utilities of app-icon/:                           *)
(*   create_icon.py              the procedural renderer                   *)
(*   create_icon_from_source.py  the source-image resizer                  *)
(* An image object is a heap cell (its edge length, the drawing layers it  *)
(* holds in the order they were applied, and the object it was resampled   *)
(* from); a Python name (icon, draw, base_icon, source_image) is a         *)
(* reference to a cell.  The file system is a map from file name to the    *)
(* edge length of the image stored under that name.  Each run is one       *)
(* process; the file system persists from one run to the next.             *)
(***************************************************************************)
EXTENDS Integers, Sequences, FiniteSets

\* ------------------------------------------------------------ bounds
\* Number of consecutive runs of a utility into the same directory.
MaxRuns == 2
\* A run may follow only a run history with at most this many per-size
\* failures, and later runs may add failures only up to it (the first run
\* explores every subset of failing sizes).
MaxFailures == 2

\* ------------------------------------------------------------ constants
\* create_icon_from_source.py: the module-level size list.
sizes == <<1024, 180, 167, 152, 120, 87, 80, 76, 60, 58, 40, 29, 20>>
\* create_icon.py: the size list local to create_ios_icon_set.
ios_sizes == <<1024, 180, 167, 152, 120, 87, 80, 76, 60, 58, 40, 29, 20>>
\* create_icon.py: the size create_ios_icon_set renders the base icon at.
BaseSize == 1024
\* create_icon.py: number of sound-wave bars.
num_lines == 7

\* Inputs: what the source path names when the resizer runs.
\*   missing       no such file
\*   unidentified  a file Image.open cannot identify (it raises)
\*   corrupt_data  a file whose header opens (Image.open is lazy) but whose
\*                 pixel data cannot be decoded: the first resize, which
\*                 loads the data, raises; whether a later resize of the
\*                 same image object raises again is left open
\*   good          a decodable image
SourceKinds == {"missing", "unidentified", "corrupt_data", "good"}
\* Inputs: edge lengths of the source image (smaller and larger than targets).
SourceEdges == {20, 1500}

\* ------------------------------------------------------------ helpers
Range(s) == {s[i] : i \in DOMAIN s}

\* f"icon_{size}.png" joined to the output directory.
file_path(size) == <<"icon_", size, ".png">>

\* A file of the directory that neither utility names.
OtherFile == <<"README", 0, ".md">>

NoFiles == [n \in {} |-> 0]

\* Variant of save that never overwrites: an existing name is kept and the
\* image goes to a new name beside it.
SaveExclusive(f, name, dim) ==
    IF name \in DOMAIN f
    THEN [n \in DOMAIN f \cup {<<"copy_", name[2], ".png">>} |->
             IF n = <<"copy_", name[2], ".png">> THEN dim ELSE f[n]]
    ELSE [n \in DOMAIN f \cup {name} |-> IF n = name THEN dim ELSE f[n]]

\* Image.save(path): the file under `name` is created or overwritten.
save(f, name, dim) ==
    [n \in DOMAIN f \cup {name} |-> IF n = name THEN dim ELSE f[n]]

\* Image.new('RGBA', (size, size), ...): a fresh, empty canvas.
NewImage(size) == [size |-> size, layers |-> <<>>, parent |-> 0]

\* Variant of resize that never enlarges (as Image.thumbnail).
ThumbnailOf(h, src, size) ==
    [size |-> IF size < h[src].size THEN size ELSE h[src].size,
     layers |-> h[src].layers, parent |-> src]

\* img.resize((size, size), Image.LANCZOS): a new image of the requested edge
\* holding the content of image `src` of heap `h`.
resize(h, src, size) ==
    [size |-> size, layers |-> h[src].layers, parent |-> src]

\* A drawing call that mutates image `id` of heap `h` in place
\* (ImageDraw.line, Image.paste).
DrawOn(h, id, layer) ==
    [h EXCEPT ![id].layers = Append(@, layer)]

\* Image.alpha_composite(a, overlay) / Image.filter: a NEW image object.
Composite(h, id, layer) ==
    Append(h, [h[id] EXCEPT !.layers = Append(@, layer)])

\* Variant of os_path_exists: the existence test left out.
ExistsAlways(kind) == TRUE

\* os.path.exists(source_path)
os_path_exists(kind) == kind # "missing"

\* Variants of ImageOpenRaises: an open that raises for one kind only.
OpenRaisesOnlyUnidentified(kind) == kind = "unidentified"

OpenRaisesOnlyMissing(kind) == kind = "missing"

\* Does Image.open(source_image_path) raise?
ImageOpenRaises(kind) == kind \in {"missing", "unidentified"}

\* Must source_image.resize raise, given the sizes attempted so far?  The
\* first resize decodes the pixel data.
DecodeRaises(kind, tried) == kind = "corrupt_data" /\ tried = <<>>

VARIABLES
    util,          \* "renderer" or "resizer"
    entry,         \* "script" (__main__) or "call" (direct call of resize_icon)
    srcKind,       \* what the source path names ("none": no source is read)
    srcEdge,       \* edge length of the source image (0: there is none)
    dirExists,     \* the output directory exists
    dirCreatable,  \* os.makedirs can create it
    fs,            \* files of the output directory: name -> edge length
    pc,            \* position of the running process
    idx,           \* position of the for loop in the size list
    out,           \* lines printed by this run
    escaped,       \* an exception left the top-level call of this run
    runs,          \* completed runs before this one
    failures,      \* per-size failures injected so far (all runs)
    heap,          \* image objects of this run
    source_image,  \* resizer: reference to the opened image
    icon,          \* renderer: the name `icon`
    draw,          \* renderer: the image ImageDraw.Draw(icon) is bound to
    base_icon,     \* renderer: what create_voicejournal_icon returned
    bars,          \* renderer: the sound-wave bars drawn
    renderCalls,   \* renderer: calls of create_voicejournal_icon in this run
    icon_paths,    \* renderer: the size -> path dict, in insertion order
    writes,        \* files written by this run, in order
    attempted,     \* sizes whose resize was attempted by this run, in order
    raised,        \* sizes whose resize or save raised in this run
    mkdirCalled,   \* os.makedirs ran in this run
    prevFs,        \* the directory as the previous run left it
    prevOk         \* the previous run was successful

vars == <<util, entry, srcKind, srcEdge, dirExists, dirCreatable, fs, pc, idx,
          out, escaped, runs, failures, heap, source_image, icon, draw,
          base_icon, bars, renderCalls, icon_paths, writes, attempted, raised,
          mkdirCalled, prevFs, prevOk>>

env == <<util, entry, srcKind, srcEdge, dirCreatable>>

render == <<icon, draw, base_icon, bars, renderCalls, icon_paths>>

history == <<prevFs, prevOk>>

\* Directory contents a run may find: nothing, a stale icon of the wrong
\* dimensions, or an unrelated file.
InitialDirs ==
    {NoFiles,
     [n \in {file_path(20)} |-> 512],
     [n \in {OtherFile} |-> 0]}

\* The state of a process at its start.
FreshRun ==
    /\ pc = "start"
    /\ idx = 1
    /\ out = <<>>
    /\ escaped = FALSE
    /\ heap = <<>>
    /\ source_image = 0
    /\ icon = 0
    /\ draw = 0
    /\ base_icon = 0
    /\ bars = <<>>
    /\ renderCalls = 0
    /\ icon_paths = <<>>
    /\ writes = <<>>
    /\ attempted = <<>>
    /\ raised = {}
    /\ mkdirCalled = FALSE

Init ==
    /\ util \in {"renderer", "resizer"}
    /\ entry \in {"script", "call"}
    /\ srcKind \in SourceKinds \cup {"none"}
    /\ srcEdge \in SourceEdges \cup {0}
    /\ dirExists \in BOOLEAN
    /\ dirCreatable \in BOOLEAN
    \* The scripts write into their own directory, which exists; the renderer
    \* reads no source.
    /\ entry = "script" => dirExists
    /\ util = "renderer" => entry = "script"
    /\ util = "renderer" <=> srcKind = "none"
    /\ srcKind \in {"none", "missing"} <=> srcEdge = 0
    /\ dirExists => dirCreatable
    /\ fs \in InitialDirs
    /\ ~dirExists => fs = NoFiles
    /\ runs = 0
    /\ failures = 0
    /\ prevFs = NoFiles
    /\ prevOk = FALSE
    /\ FreshRun

\* ------------------------------------------------------------ resizer
\* __main__ of create_icon_from_source.py: the existence test.
Main ==
    /\ util = "resizer" /\ entry = "script" /\ pc = "start"
    /\ IF ~os_path_exists(srcKind)
       THEN /\ out' = Append(out, <<"not_found", 0>>)
            /\ pc' = "done"
       ELSE /\ out' = out
            /\ pc' = "open"
    /\ UNCHANGED <<env, render, history, dirExists, fs, idx, escaped, runs,
                   failures, heap, source_image, writes, attempted, raised,
                   mkdirCalled>>

\* A direct call resize_icon(source_image_path, output_dir).
CallResizeIcon ==
    /\ util = "resizer" /\ entry = "call" /\ pc = "start"
    /\ pc' = "open"
    /\ UNCHANGED <<env, render, history, dirExists, fs, idx, out, escaped,
                   runs, failures, heap, source_image, writes, attempted,
                   raised, mkdirCalled>>

\* resize_icon: try: Image.open ... except Exception: print; return
OpenSource ==
    /\ util = "resizer" /\ pc = "open"
    /\ IF ImageOpenRaises(srcKind)
       THEN /\ out' = Append(out, <<"error_open", 0>>)
            /\ pc' = "return"
            /\ UNCHANGED <<heap, source_image>>
       ELSE /\ heap' = Append(heap, [size |-> srcEdge,
                                     layers |-> <<"source">>, parent |-> 0])
            /\ source_image' = Len(heap) + 1
            /\ out' = Append(out, <<"opened", 0>>)
            /\ pc' = "mkdir"
    /\ UNCHANGED <<env, render, history, dirExists, fs, idx, escaped, runs,
                   failures, writes, attempted, raised, mkdirCalled>>

\* resize_icon: os.makedirs(output_dir, exist_ok=True), outside any try.
MakeDirs ==
    /\ util = "resizer" /\ pc = "mkdir"
    /\ mkdirCalled' = TRUE
    /\ IF dirExists \/ dirCreatable
       THEN /\ dirExists' = TRUE
            /\ escaped' = escaped
            /\ pc' = "loop"
       ELSE /\ dirExists' = dirExists
            /\ escaped' = TRUE
            /\ pc' = "done"
    /\ UNCHANGED <<env, render, history, fs, idx, out, runs, failures, heap,
                   source_image, writes, attempted, raised>>

\* Variant of AfterFailure: the try around the whole loop, not its body.
AbortLoop(i) == Len(sizes) + 1

\* The for loop's next position after the body ran at position i without
\* raising.
AfterIteration(i) == i + 1

\* The for loop's next position after the except clause handled an exception
\* raised at position i.
AfterFailure(i) == i + 1

LoopPc(i) == IF i > Len(sizes) THEN "return" ELSE "loop"

\* Exploration bound on injected failures (see MaxFailures).
CanFail == runs = 0 \/ failures < MaxFailures

\* for size in sizes: the try body runs to its end.
ResizeOne ==
    /\ util = "resizer" /\ pc = "loop" /\ idx <= Len(sizes)
    /\ ~DecodeRaises(srcKind, attempted)
    /\ LET size == sizes[idx]
           output_path == file_path(size)
           resized_image == resize(heap, source_image, size)
       IN  /\ heap' = Append(heap, resized_image)
           /\ fs' = save(fs, output_path, resized_image.size)
           /\ writes' = Append(writes, [name |-> output_path,
                                        dim |-> resized_image.size,
                                        obj |-> Len(heap) + 1])
           /\ out' = Append(out, <<"created", size>>)
           /\ attempted' = Append(attempted, size)
    /\ idx' = AfterIteration(idx)
    /\ pc' = LoopPc(idx')
    /\ UNCHANGED <<env, render, history, dirExists, escaped, runs, failures,
                   source_image, raised, mkdirCalled>>

\* for size in sizes: resize or save raises; except Exception prints the size.
\* A save that raises leaves the file as it was.
ResizeOneFails ==
    /\ util = "resizer" /\ pc = "loop" /\ idx <= Len(sizes)
    /\ DecodeRaises(srcKind, attempted) \/ CanFail
    /\ LET size == sizes[idx]
       IN  /\ out' = Append(out, <<"error_create", size>>)
           /\ attempted' = Append(attempted, size)
           /\ raised' = raised \cup {size}
    /\ failures' = IF DecodeRaises(srcKind, attempted)
                   THEN failures ELSE failures + 1
    /\ idx' = AfterFailure(idx)
    /\ pc' = LoopPc(idx')
    /\ UNCHANGED <<env, render, history, dirExists, fs, escaped, runs, heap,
                   source_image, writes, mkdirCalled>>

\* resize_icon returns; __main__ prints its last line.
ReturnFromResize ==
    /\ util = "resizer" /\ pc = "return"
    /\ out' = IF entry = "script" THEN Append(out, <<"complete", 0>>) ELSE out
    /\ pc' = "done"
    /\ UNCHANGED <<env, render, history, dirExists, fs, idx, escaped, runs,
                   failures, heap, source_image, writes, attempted, raised,
                   mkdirCalled>>

\* ------------------------------------------------------------ renderer
\* int(x) for the rational n/d, d > 0: truncation toward zero.
Trunc(n, d) == IF n >= 0 THEN n \div d ELSE -((-n) \div d)

Abs(x) == IF x >= 0 THEN x ELSE -x

Max(a, b) == IF a >= b THEN a ELSE b

\* Variant of DistNum: the centre taken at num_lines / 2.
DistNumOffCenter(i) == Abs(2 * i - num_lines)

\* abs(i - (num_lines - 1) / 2) / ((num_lines - 1) / 2) for bar i (0-based),
\* as the fraction DistNum(i) / DistDen.
DistNum(i) == Abs(2 * i - (num_lines - 1))

DistDen == num_lines - 1

\* max_amplitude = wave_height * 0.25, wave_height = page_height * 0.5,
\* page_height = size * 0.8: the fraction size / 10.
max_amplitude(size) == [n |-> size, d |-> 10]

\* amplitude = max_amplitude * (1 - 0.8 * distance_from_center**2)
amplitude(size, i) ==
    [n |-> max_amplitude(size).n
             * (10 * DistDen * DistDen - 8 * DistNum(i) * DistNum(i)),
     d |-> max_amplitude(size).d * 10 * DistDen * DistDen]

\* int(c_edge + (c_center - c_edge) * center_factor),
\* center_factor = 1 - distance_from_center
channel(c_edge, c_center, i) ==
    Trunc(c_edge * DistDen + (c_center - c_edge) * (DistDen - DistNum(i)),
          DistDen)

\* line_width = max(2, int(size * 0.015 * (0.5 + 0.5 * center_factor)))
line_width(size, i) ==
    Max(2, Trunc(size * 15 * (2 * DistDen - DistNum(i)), 1000 * 2 * DistDen))

\* One sound-wave bar as drawn on wave_overlay.
Bar(size, i) ==
    [amp |-> amplitude(size, i),
     r |-> channel(89, 41, i),
     g |-> channel(65, 128, i),
     b |-> channel(169, 185, i),
     width |-> line_width(size, i)]

\* The bars for i in range(num_lines); position k of the sequence is bar k - 1.
Bars(size) == [k \in 1..num_lines |-> Bar(size, k - 1)]

\* icon_paths[size] = path on an insertion-ordered dict.
DictSet(d, k, v) ==
    IF \E j \in DOMAIN d : d[j][1] = k
    THEN [j \in DOMAIN d |-> IF d[j][1] = k THEN <<k, v>> ELSE d[j]]
    ELSE Append(d, <<k, v>>)

Keys(d) == {d[j][1] : j \in DOMAIN d}

\* __main__ of create_icon.py calls create_ios_icon_set, which calls
\* create_voicejournal_icon(".../icon_1024.png", 1024).
CallCreateIcon ==
    /\ util = "renderer" /\ pc = "start"
    /\ renderCalls' = renderCalls + 1
    /\ pc' = "r_new"
    /\ UNCHANGED <<env, history, dirExists, fs, idx, out, escaped, runs,
                   failures, heap, source_image, icon, draw, base_icon, bars,
                   icon_paths, writes, attempted, raised, mkdirCalled>>

\* icon = Image.new(...); draw = ImageDraw.Draw(icon)
NewCanvas ==
    /\ util = "renderer" /\ pc = "r_new"
    /\ heap' = Append(heap, NewImage(BaseSize))
    /\ icon' = Len(heap) + 1
    /\ draw' = Len(heap) + 1
    /\ pc' = "r_background"
    /\ UNCHANGED <<env, history, dirExists, fs, idx, out, escaped, runs,
                   failures, source_image, base_icon, bars, renderCalls,
                   icon_paths, writes, attempted, raised, mkdirCalled>>

\* icon.paste(gradient, (0, 0), mask): in place.
PasteBackground ==
    /\ util = "renderer" /\ pc = "r_background"
    /\ heap' = DrawOn(heap, icon, "gradient")
    /\ pc' = "r_shadow"
    /\ UNCHANGED <<env, render, history, dirExists, fs, idx, out, escaped,
                   runs, failures, source_image, writes, attempted, raised,
                   mkdirCalled>>

\* The object Image.alpha_composite returned: the newest of heap h.
Newest(h) == Len(h)

\* icon = Image.alpha_composite(icon, shadow): the name icon is rebound.
CompositeShadow ==
    /\ util = "renderer" /\ pc = "r_shadow"
    /\ heap' = Composite(heap, icon, "shadow")
    /\ icon' = Newest(heap')
    /\ pc' = "r_page"
    /\ UNCHANGED <<env, history, dirExists, fs, idx, out, escaped, runs,
                   failures, source_image, draw, base_icon, bars, renderCalls,
                   icon_paths, writes, attempted, raised, mkdirCalled>>

\* icon.paste(page, (0, 0), page_mask): in place.
PastePage ==
    /\ util = "renderer" /\ pc = "r_page"
    /\ heap' = DrawOn(heap, icon, "page")
    /\ pc' = "r_glow"
    /\ UNCHANGED <<env, render, history, dirExists, fs, idx, out, escaped,
                   runs, failures, source_image, writes, attempted, raised,
                   mkdirCalled>>

\* The bars are drawn on wave_overlay; its blurred copy is composited first:
\* icon = Image.alpha_composite(icon, glow_masked)
CompositeGlow ==
    /\ util = "renderer" /\ pc = "r_glow"
    /\ bars' = Bars(heap[icon].size)
    /\ heap' = Composite(heap, icon, "glow")
    /\ icon' = Newest(heap')
    /\ pc' = "r_wave"
    /\ UNCHANGED <<env, history, dirExists, fs, idx, out, escaped, runs,
                   failures, source_image, draw, base_icon, renderCalls,
                   icon_paths, writes, attempted, raised, mkdirCalled>>

\* icon = Image.alpha_composite(icon, wave_overlay)
CompositeWave ==
    /\ util = "renderer" /\ pc = "r_wave"
    /\ heap' = Composite(heap, icon, "wave")
    /\ icon' = Newest(heap')
    /\ pc' = "r_lines"
    /\ UNCHANGED <<env, history, dirExists, fs, idx, out, escaped, runs,
                   failures, source_image, draw, base_icon, bars, renderCalls,
                   icon_paths, writes, attempted, raised, mkdirCalled>>

\* for i in range(1, 8): draw.line(...): on the image draw is bound to.
DrawNotebookLines ==
    /\ util = "renderer" /\ pc = "r_lines"
    /\ heap' = DrawOn(heap, draw, "lines")
    /\ pc' = "r_save"
    /\ UNCHANGED <<env, render, history, dirExists, fs, idx, out, escaped,
                   runs, failures, source_image, writes, attempted, raised,
                   mkdirCalled>>

\* icon.save(save_path); return icon; then, in create_ios_icon_set,
\* base_icon = <the returned image>; icon_paths[1024] = ".../icon_1024.png"
SaveBase ==
    /\ util = "renderer" /\ pc = "r_save"
    /\ fs' = save(fs, file_path(BaseSize), heap[icon].size)
    /\ writes' = Append(writes, [name |-> file_path(BaseSize),
                                 dim |-> heap[icon].size, obj |-> icon])
    /\ base_icon' = icon
    /\ icon_paths' = DictSet(icon_paths, BaseSize, file_path(BaseSize))
    /\ idx' = 1
    /\ pc' = "r_loop"
    /\ UNCHANGED <<env, history, dirExists, out, escaped, runs, failures,
                   heap, source_image, icon, draw, bars, renderCalls,
                   attempted, raised, mkdirCalled>>

\* icon.save raises: nothing in create_icon.py catches it.
SaveBaseFails ==
    /\ util = "renderer" /\ pc = "r_save"
    /\ escaped' = TRUE
    /\ pc' = "done"
    /\ UNCHANGED <<env, render, history, dirExists, fs, idx, out, runs,
                   failures, heap, source_image, writes, attempted, raised,
                   mkdirCalled>>

\* Variant of ScaleSource: each size resampled from the image made last.
ScaleFromPrevious == Len(heap)

\* The image create_ios_icon_set resizes for every smaller size.
ScaleSource == base_icon

IosLoopPc(i) == IF i > Len(ios_sizes) THEN "r_print" ELSE "r_loop"

\* for size in sizes: if size != 1024 is false: nothing to do.
SkipBaseSize ==
    /\ util = "renderer" /\ pc = "r_loop" /\ idx <= Len(ios_sizes)
    /\ ios_sizes[idx] = BaseSize
    /\ idx' = idx + 1
    /\ pc' = IosLoopPc(idx')
    /\ UNCHANGED <<env, render, history, dirExists, fs, out, escaped, runs,
                   failures, heap, source_image, writes, attempted, raised,
                   mkdirCalled>>

\* scaled_icon = base_icon.resize(...); scaled_icon.save(file_path);
\* icon_paths[size] = file_path
ScaleOne ==
    /\ util = "renderer" /\ pc = "r_loop" /\ idx <= Len(ios_sizes)
    /\ ios_sizes[idx] # BaseSize
    /\ LET size == ios_sizes[idx]
           scaled_icon == resize(heap, ScaleSource, size)
       IN  /\ heap' = Append(heap, scaled_icon)
           /\ fs' = save(fs, file_path(size), scaled_icon.size)
           /\ writes' = Append(writes, [name |-> file_path(size),
                                        dim |-> scaled_icon.size,
                                        obj |-> Len(heap) + 1])
           /\ icon_paths' = DictSet(icon_paths, size, file_path(size))
           /\ attempted' = Append(attempted, size)
    /\ idx' = idx + 1
    /\ pc' = IosLoopPc(idx')
    /\ UNCHANGED <<env, history, dirExists, out, escaped, runs, failures,
                   source_image, icon, draw, base_icon, bars, renderCalls,
                   raised, mkdirCalled>>

\* resize or save raises: nothing in create_icon.py catches it.
ScaleOneFails ==
    /\ util = "renderer" /\ pc = "r_loop" /\ idx <= Len(ios_sizes)
    /\ ios_sizes[idx] # BaseSize
    /\ attempted' = Append(attempted, ios_sizes[idx])
    /\ raised' = raised \cup {ios_sizes[idx]}
    /\ escaped' = TRUE
    /\ pc' = "done"
    /\ UNCHANGED <<env, render, history, dirExists, fs, idx, out, runs,
                   failures, heap, source_image, writes, mkdirCalled>>

\* __main__: print the directory, then one line per entry of the dict.
PrintIconSet ==
    /\ util = "renderer" /\ pc = "r_print"
    /\ out' = out \o <<<<"created_set", 0>>>>
                  \o [j \in DOMAIN icon_paths |-> <<"icon", icon_paths[j][1]>>]
    /\ pc' = "done"
    /\ UNCHANGED <<env, render, history, dirExists, fs, idx, escaped, runs,
                   failures, heap, source_image, writes, attempted, raised,
                   mkdirCalled>>

\* ------------------------------------------------------------ runs
\* The run ended with every step done and none failed.
RunSucceeded ==
    /\ pc = "done"
    /\ ~escaped
    /\ raised = {}
    /\ util = "resizer" => source_image # 0

\* The utility is started again in the same directory: a new process.
NextRun ==
    /\ pc = "done"
    /\ runs + 1 < MaxRuns
    /\ failures <= MaxFailures
    /\ runs' = runs + 1
    /\ prevFs' = fs
    /\ prevOk' = RunSucceeded
    /\ pc' = "start"
    /\ idx' = 1
    /\ out' = <<>>
    /\ escaped' = FALSE
    /\ heap' = <<>>
    /\ source_image' = 0
    /\ icon' = 0
    /\ draw' = 0
    /\ base_icon' = 0
    /\ bars' = <<>>
    /\ renderCalls' = 0
    /\ icon_paths' = <<>>
    /\ writes' = <<>>
    /\ attempted' = <<>>
    /\ raised' = {}
    /\ mkdirCalled' = FALSE
    /\ UNCHANGED <<env, dirExists, fs, failures>>

Next ==
    \/ Main
    \/ CallResizeIcon
    \/ OpenSource
    \/ MakeDirs
    \/ ResizeOne
    \/ ResizeOneFails
    \/ ReturnFromResize
    \/ CallCreateIcon
    \/ NewCanvas
    \/ PasteBackground
    \/ CompositeShadow
    \/ PastePage
    \/ CompositeGlow
    \/ CompositeWave
    \/ DrawNotebookLines
    \/ SaveBase
    \/ SaveBaseFails
    \/ SkipBaseSize
    \/ ScaleOne
    \/ ScaleOneFails
    \/ PrintIconSet
    \/ NextRun

Spec == Init /\ [][Next]_vars

\* ------------------------------------------------------------ properties
\* The size list as the specification states it.
StatedSizes == {1024, 180, 167, 152, 120, 87, 80, 76, 60, 58, 40, 29, 20}

StatedNames == {file_path(s) : s \in StatedSizes}

Printed(line) == line \in Range(out)

WrittenNames == {writes[i].name : i \in DOMAIN writes}

\* C1: a run of either utility in which no step fails writes exactly one file
\* per size of the stated list, named icon_<size>.png and of edge <size>; no
\* run writes a file outside the list; the renderer's dict then has exactly
\* the stated sizes as keys.
C1_OneFilePerSize ==
    /\ WrittenNames \subseteq StatedNames
    /\ RunSucceeded =>
          /\ WrittenNames = StatedNames
          /\ Len(writes) = Cardinality(StatedSizes)
          /\ \A i \in DOMAIN writes :
                /\ writes[i].dim = writes[i].name[2]
                /\ heap[writes[i].obj].size = writes[i].name[2]
                /\ fs[writes[i].name] = writes[i].name[2]
          /\ util = "renderer" =>
                /\ Keys(icon_paths) = StatedSizes
                /\ Len(icon_paths) = Cardinality(StatedSizes)
                /\ \A j \in DOMAIN icon_paths :
                      icon_paths[j][2] = file_path(icon_paths[j][1])

C1_Witness ==
    /\ RunSucceeded
    /\ util = "resizer"
    /\ srcEdge = 20
    /\ Len(writes) = 13

\* C2: resizer, source path missing: through the script and through a direct
\* call the run writes no file, prints an error line, and no exception
\* escapes.
C2_MissingSourceWritesNothing ==
    (util = "resizer" /\ srcKind = "missing") =>
        /\ writes = <<>>
        /\ attempted = <<>>
        /\ ~escaped
        /\ pc = "done" =>
              \/ entry = "script" /\ Printed(<<"not_found", 0>>)
              \/ entry = "call" /\ Printed(<<"error_open", 0>>)

C2_Witness ==
    /\ util = "resizer"
    /\ srcKind = "missing"
    /\ entry = "call"
    /\ pc = "done"
    /\ Printed(<<"error_open", 0>>)

\* C3: resizer, source opened: a size whose resize or save raises is logged
\* with that size, the sizes are attempted in list order, every size is
\* attempted whatever subset fails, each size that does not fail has its
\* file written, and no exception escapes once the loop runs.
C3_PerSizeIsolation ==
    (util = "resizer" /\ source_image # 0) =>
        /\ attempted = SubSeq(sizes, 1, Len(attempted))
        /\ \A s \in raised : Printed(<<"error_create", s>>)
        /\ Len(attempted) > 0 => ~escaped
        /\ (pc \in {"return", "done"} /\ ~escaped) =>
              /\ attempted = sizes
              /\ \A s \in Range(sizes) \ raised :
                    /\ \E i \in DOMAIN writes :
                          writes[i].name = file_path(s) /\ writes[i].dim = s
                    /\ fs[file_path(s)] = s
                    /\ Printed(<<"created", s>>)

C3_Witness ==
    /\ util = "resizer"
    /\ pc = "done"
    /\ raised = {1024, 152, 20}
    /\ Len(writes) = 10

\* C4 as stated: resizer, source exists but is corrupted or undecodable: the
\* directory is not created, no size is attempted and no file is written.
C4_CorruptSourceNeverReachesLoop ==
    (util = "resizer" /\ srcKind \in {"unidentified", "corrupt_data"}) =>
        /\ ~mkdirCalled
        /\ attempted = <<>>
        /\ writes = <<>>

\* C4 amended: when Image.open itself raises on the existing source, the
\* error is caught and reported and the run aborts before os.makedirs: no
\* directory is created, no size attempted, no file written.  When the file
\* opens but its pixel data cannot be decoded, the run is not aborted:
\* os.makedirs runs and, unless it raises, the decode error is caught and
\* logged for the first size and every size of the list is still attempted.
C4_OpenFailureAborts ==
    /\ (util = "resizer" /\ srcKind = "unidentified") =>
          /\ ~mkdirCalled
          /\ attempted = <<>>
          /\ writes = <<>>
          /\ ~escaped
          /\ pc \in {"return", "done"} => Printed(<<"error_open", 0>>)
    /\ (/\ util = "resizer" /\ srcKind = "corrupt_data"
        /\ pc \in {"return", "done"} /\ ~escaped) =>
              /\ mkdirCalled
              /\ attempted = sizes
              /\ sizes[1] \in raised
              /\ Printed(<<"error_create", sizes[1]>>)

C4_Witness ==
    /\ util = "resizer"
    /\ srcKind = "unidentified"
    /\ entry = "call"
    /\ pc = "done"
    /\ ~dirExists
    /\ Printed(<<"error_open", 0>>)

\* C5: renderer: create_voicejournal_icon runs once, at 1024; icon_1024.png is
\* the first file written; every other file holds a resample of that one
\* base image object, never of a resampled image.
C5_SingleRenderThenDownsample ==
    util = "renderer" =>
        /\ renderCalls <= 1
        /\ writes # <<>> =>
              /\ renderCalls = 1
              /\ writes[1].name = file_path(1024)
              /\ writes[1].obj = base_icon
              /\ heap[base_icon].size = 1024
              /\ heap[base_icon].parent = 0
        /\ \A i \in DOMAIN writes : i > 1 =>
              /\ writes[i].name # file_path(1024)
              /\ heap[writes[i].obj].parent = base_icon
              /\ heap[writes[i].obj].layers = heap[base_icon].layers

C5_Witness ==
    /\ util = "renderer"
    /\ pc = "done"
    /\ ~escaped
    /\ Len(writes) = 13

\* C6: renderer: the image saved and returned holds the four stages in order,
\* the notebook lines last.
C6_SavedImageHasAllStages ==
    (util = "renderer" /\ base_icon # 0) =>
        heap[base_icon].layers =
            <<"gradient", "shadow", "page", "glow", "wave", "lines">>

\* C8: two consecutive successful runs into the same directory leave the
\* same file names with the same dimensions as the first left: files are
\* overwritten, none duplicated, renamed or deleted.
C8_SecondRunOverwrites ==
    (RunSucceeded /\ runs >= 1 /\ prevOk) => fs = prevFs

C8_Witness ==
    /\ RunSucceeded
    /\ runs = 1
    /\ prevOk
    /\ OtherFile \in DOMAIN fs
    /\ Cardinality(DOMAIN fs) = 14

\* a < b for fractions with positive denominators.
Less(a, b) == a.n * b.d < b.n * a.d

\* C9: the seven bars: amplitude max_amplitude * (1 - 0.8 * d^2) with
\* d = |i - 3| / 3, symmetric about bar 3, strictly decreasing with the
\* distance from it, full at the centre, 0.2 of it at the edges; colour
\* (41, 128, 185) at the centre, (89, 65, 169) at the edges, every channel
\* in 0..255 and between the two endpoints.
C9_BarAmplitudesAndColours ==
    bars # <<>> =>
        LET size == heap[icon].size
            off(k) == Abs((k - 1) - 3)
        IN  /\ Len(bars) = 7
            /\ \A k \in DOMAIN bars :
                  /\ bars[k].amp.d > 0
                  /\ bars[k].amp.n * 900
                        = bars[k].amp.d * size * (90 - 8 * off(k) * off(k))
                  /\ bars[k].amp = bars[8 - k].amp
                  /\ bars[k].r \in 0..255 /\ bars[k].g \in 0..255
                  /\ bars[k].b \in 0..255
                  /\ bars[k].r \in 41..89 /\ bars[k].g \in 65..128
                  /\ bars[k].b \in 169..185
                  /\ <<bars[k].r, bars[k].g, bars[k].b>>
                        = <<bars[8 - k].r, bars[8 - k].g, bars[8 - k].b>>
            /\ \A j, k \in DOMAIN bars :
                  off(j) < off(k) => Less(bars[k].amp, bars[j].amp)
            /\ bars[4].amp.n * 10 = bars[4].amp.d * size
            /\ \A k \in {1, 7} : bars[k].amp.n * 50 = bars[k].amp.d * size
            /\ <<bars[4].r, bars[4].g, bars[4].b>> = <<41, 128, 185>>
            /\ \A k \in {1, 7} :
                  <<bars[k].r, bars[k].g, bars[k].b>> = <<89, 65, 169>>

C9_Witness ==
    /\ util = "renderer"
    /\ pc = "r_wave"
    /\ Len(bars) = 7

\* C10: resizer script: the line 'Icon generation complete' is printed by the
\* end of the run exactly when the source path exists, whatever happened in
\* resize_icon, and never when it does not exist.
C10_CompleteLine ==
    (util = "resizer" /\ entry = "script") =>
        /\ pc = "done" =>
              (Printed(<<"complete", 0>>) <=> srcKind # "missing")
        /\ srcKind = "missing" => ~Printed(<<"complete", 0>>)

C10_Witness ==
    /\ util = "resizer"
    /\ entry = "script"
    /\ pc = "done"
    /\ srcKind = "unidentified"
    /\ writes = <<>>
    /\ Printed(<<"complete", 0>>)
====
